---- MODULE Spec2Model ----
(***************************************************************************)
(* Wave-Graph Grammar-Core: Lexicon, Grammar, EmotionField and the         *)
(* SentenceGenerator of src/wave_graph_grammar_core.py as a state machine. *)
(*                                                                         *)
(* A Python str is a sequence of one-character strings, so that lower(),   *)
(* upper(), join, replace, indexing and endswith are computed and not      *)
(* assumed.  A float is a fixed-point integer in units of 1/One; NaN and   *)
(* the infinities are not represented.                                     *)
(***************************************************************************)
EXTENDS Integers, Sequences, FiniteSets, TLC

VARIABLES
    lex,        \* Lexicon.entries: insertion-ordered dict, a sequence of entries
    g,          \* Grammar.rules: lhs -> rhs (list of alternatives)
    rng,        \* the module-global state of `random`: [seed, pos]
    stream,     \* the values the seeded global stream has produced: <<seed, pos>> -> index
    pc,         \* position of the running generate() call
    caller,     \* which SentenceGenerator instance is running generate()
    stack,      \* the chain of active _expand frames, outermost first
    err,        \* the exception generate() raised, or NoError
    tree,       \* generate(): local `tree` once _expand returned
    tokens,     \* generate(): local `tokens` after _postprocess
    fields,     \* every EmotionField constructed by the current generate(), in order
    result,     \* the triple generate() returned
    gens,       \* the SentenceGenerator instances constructed so far
    out,        \* what the client received from each instance's generate() calls
    last,       \* the last direct call of a Lexicon / _choose_for_pos method and its return
    recent,     \* history: the part of speech given by the most recent add of each spelling
    ptoks,      \* argument of a direct _postprocess call
    pout        \* its return value

vars == <<lex, g, rng, stream, pc, caller, stack, err, tree, tokens, fields,
          result, gens, out, last, recent, ptoks, pout>>

(***************************************************************************)
(* Bounds of the model.                                                    *)
(***************************************************************************)
\* how many of the words of one slot's random.choice are explored (the last ones)
MaxPick == 1
\* the interpreter's recursion limit, in _expand frames
RecursionLimit == 8
\* generate() calls per instance in the two-instance scenario
MaxCalls == 2
\* longest token list handed to _postprocess directly
MaxLen == 3

\* fixed-point representation of the float 1.0
One == 100

(***************************************************************************)
(* str                                                                     *)
(***************************************************************************)
ascii_lowercase ==
    <<"a","b","c","d","e","f","g","h","i","j","k","l","m",
      "n","o","p","q","r","s","t","u","v","w","x","y","z">>

ascii_uppercase ==
    <<"A","B","C","D","E","F","G","H","I","J","K","L","M",
      "N","O","P","Q","R","S","T","U","V","W","X","Y","Z">>

\* the case mappings of str.lower() and str.upper() on the ASCII letters
lower_table ==
    [c \in {ascii_uppercase[i] : i \in 1..26} |->
        ascii_lowercase[CHOOSE i \in 1..26 : ascii_uppercase[i] = c]]

upper_table ==
    [c \in {ascii_lowercase[i] : i \in 1..26} |->
        ascii_uppercase[CHOOSE i \in 1..26 : ascii_lowercase[i] = c]]

lower_char(c) == IF c \in DOMAIN lower_table THEN lower_table[c] ELSE c

upper_char(c) == IF c \in DOMAIN upper_table THEN upper_table[c] ELSE c

lower(s) == [i \in 1..Len(s) |-> lower_char(s[i])]

upper(s) == [i \in 1..Len(s) |-> upper_char(s[i])]

isupper(c) == c \in DOMAIN lower_table

\* sep.join(xs)
RECURSIVE join(_, _)
join(sep, xs) ==
    IF xs = <<>> THEN <<>>
    ELSE IF Len(xs) = 1 THEN xs[1]
    ELSE xs[1] \o sep \o join(sep, Tail(xs))

\* s.replace(old, new) for a two-character old and a one-character new:
\* leftmost non-overlapping occurrences
RECURSIVE replace(_, _, _)
replace(s, old, new) ==
    IF Len(s) < 2 THEN s
    ELSE IF s[1] = old[1] /\ s[2] = old[2]
         THEN new \o replace(SubSeq(s, 3, Len(s)), old, new)
         ELSE <<s[1]>> \o replace(Tail(s), old, new)

endswith(s, suffixes) == s # <<>> /\ <<s[Len(s)]>> \in suffixes

(***************************************************************************)
(* Lexicon                                                                 *)
(***************************************************************************)
LexEntry(word, pos, polarity) == [word |-> word, pos |-> pos, polarity |-> polarity]

DET == <<"D","E","T">>
NOUN == <<"N","O","U","N">>
VERB == <<"V","E","R","B">>
ADJ == <<"A","D","J">>

\* Lexicon.__init__: the seed vocabulary, in dict (insertion) order
Lexicon ==
    << LexEntry(<<"t","h","e">>, DET, 0),
       LexEntry(<<"a">>, DET, 0),
       LexEntry(<<"a","n">>, DET, 0),
       LexEntry(<<"c","a","t">>, NOUN, 20),
       LexEntry(<<"d","o","g">>, NOUN, 30),
       LexEntry(<<"c","h","i","l","d">>, NOUN, 40),
       LexEntry(<<"w","a","r">>, NOUN, -90),
       LexEntry(<<"l","o","v","e">>, NOUN, 90),
       LexEntry(<<"s","e","e">>, VERB, 0),
       LexEntry(<<"l","i","k","e">>, VERB, 60),
       LexEntry(<<"c","h","a","s","e">>, VERB, -10),
       LexEntry(<<"h","a","t","e">>, VERB, -70),
       LexEntry(<<"a","d","o","r","e">>, VERB, 80),
       LexEntry(<<"h","a","p","p","y">>, ADJ, 80),
       LexEntry(<<"s","a","d">>, ADJ, -60),
       LexEntry(<<"b","r","a","v","e">>, ADJ, 50),
       LexEntry(<<"a","n","g","r","y">>, ADJ, -50) >>

\* add with the key stored as given: self.entries[word] = ...
add_nolower(entries, word, pos, polarity) ==
    LET e == LexEntry(word, upper(pos), polarity)
    IN  IF \E i \in 1..Len(entries) : entries[i].word = word
        THEN [i \in 1..Len(entries) |->
                 IF entries[i].word = word THEN e ELSE entries[i]]
        ELSE Append(entries, e)

\* self.entries[word.lower()] = LexEntry(pos.upper(), float(polarity)):
\* an existing key keeps its place in the dict, a new key goes last
add(entries, word, pos, polarity) ==
    LET k == lower(word)
        e == LexEntry(k, upper(pos), polarity)
    IN  IF \E i \in 1..Len(entries) : entries[i].word = k
        THEN [i \in 1..Len(entries) |->
                 IF entries[i].word = k THEN e ELSE entries[i]]
        ELSE Append(entries, e)

\* self.entries.get(word.lower()); found = FALSE stands for None
get(entries, word) ==
    LET hits == SelectSeq(entries, LAMBDA e : e.word = lower(word))
    IN  IF hits # <<>>
        THEN [found |-> TRUE, pos |-> hits[1].pos, polarity |-> hits[1].polarity]
        ELSE [found |-> FALSE, pos |-> <<>>, polarity |-> 0]

words_for_pos(entries, pos) ==
    LET p == upper(pos)
        hits == SelectSeq(entries, LAMBDA e : e.pos = p)
    IN  [i \in 1..Len(hits) |-> hits[i].word]

(***************************************************************************)
(* EmotionField                                                            *)
(***************************************************************************)
\* math.tanh on fixed-point numbers: the Pade approximant
\* x(27 + x^2) / (27 + 9 x^2), odd, monotone, saturating at |x| >= 3
tanh_pos(x) ==
    IF x >= 3 * One THEN One
    ELSE (x * (27 * One * One + x * x)) \div (27 * One * One + 9 * x * x)

tanh(x) == IF x < 0 THEN 0 - tanh_pos(0 - x) ELSE tanh_pos(x)

\* combine as the mean of the two valences
combine_avg(self, other) == (self + other) \div 2

\* EmotionField.combine: a field is its valence
combine(self, other) == tanh(self + other)

\* EmotionField.from_word
from_word(word, entries) ==
    LET e == get(entries, word)
    IN  IF e.found THEN e.polarity ELSE 0

(***************************************************************************)
(* Grammar                                                                 *)
(***************************************************************************)
\* Symbol = Union[str, Tuple[str, dict]]; anything else is kind "other".
\* The dict of a slot tuple is never read by the generator.
Str(name) == [kind |-> "str", name |-> name]
Slot(name) == [kind |-> "tuple", name |-> name]
Other == [kind |-> "other", name |-> <<>>]

S == <<"S">>
CLAUSE == <<"C","L","A","U","S","E">>
NP == <<"N","P">>
VP == <<"V","P">>
PP == <<"P","P">>
Q == <<"Q">>
IMP == <<"I","M","P">>
N == <<"N">>
V == <<"V">>
P == <<"P">>
AUX == <<"A","U","X">>
WH == <<"W","H">>
QMARK == <<"?">>

slot_DET == <<"<","D","E","T",">">>
slot_NOUN == <<"<","N","O","U","N",">">>
slot_VERB == <<"<","V","E","R","B",">">>
slot_ADJ == <<"<","A","D","J",">">>
slot_P == <<"<","P",">">>
slot_AUX == <<"<","A","U","X",">">>
slot_WH == <<"<","W","H",">">>

\* Grammar.add_rule: self.rules[lhs] = Rule(lhs, rhs)
add_rule(rules, lhs, rhs) == (lhs :> rhs) @@ rules

\* Grammar.has
has(rules, nonterminal) == nonterminal \in DOMAIN rules

\* Grammar.__init__ + _seed_rules
Grammar ==
    LET r0  == [x \in {} |-> <<>>]
        r1  == add_rule(r0, S, << <<Str(CLAUSE)>>, <<Str(Q)>>, <<Str(IMP)>> >>)
        r2  == add_rule(r1, CLAUSE, << <<Str(NP), Str(VP)>>,
                                       <<Str(NP), Str(VP), Str(PP)>> >>)
        r3  == add_rule(r2, NP, << <<Str(DET), Str(N)>>,
                                   <<Str(DET), Str(ADJ), Str(N)>>,
                                   <<Str(N)>> >>)
        r4  == add_rule(r3, VP, << <<Str(V), Str(NP)>>, <<Str(V)>>,
                                   <<Str(V), Str(ADJ)>> >>)
        r5  == add_rule(r4, PP, << <<Str(P), Str(NP)>> >>)
        r6  == add_rule(r5, Q, << <<Str(AUX), Str(NP), Str(V), Str(NP), Str(QMARK)>>,
                                  <<Str(WH), Str(V), Str(NP), Str(QMARK)>> >>)
        r7  == add_rule(r6, IMP, << <<Str(V), Str(NP)>>, <<Str(V)>> >>)
        r8  == add_rule(r7, DET, << <<Slot(slot_DET)>> >>)
        r9  == add_rule(r8, N, << <<Slot(slot_NOUN)>> >>)
        r10 == add_rule(r9, V, << <<Slot(slot_VERB)>> >>)
        r11 == add_rule(r10, ADJ, << <<Slot(slot_ADJ)>> >>)
        r12 == add_rule(r11, P, << <<Slot(slot_P)>> >>)
        r13 == add_rule(r12, AUX, << <<Slot(slot_AUX)>> >>)
        r14 == add_rule(r13, WH, << <<Slot(slot_WH)>> >>)
    IN  add_rule(r14, QMARK, << <<Str(QMARK)>> >>)

\* Grammar.start
start == S

(***************************************************************************)
(* DerivationNode                                                          *)
(***************************************************************************)
\* leaf = (token is not None)
DerivationNode(symbol, children, leaf, token) ==
    [symbol |-> symbol, children |-> children, leaf |-> leaf, token |-> token]

NoNode == DerivationNode(<<>>, <<>>, FALSE, <<>>)

RECURSIVE spaces(_)
spaces(n) == IF n = 0 THEN <<>> ELSE <<" ">> \o spaces(n - 1)

RECURSIVE pretty(_, _)
RECURSIVE pretty_children(_, _)
pretty(node, indent) ==
    LET pad == spaces(2 * indent)
    IN  IF node.leaf
        THEN pad \o node.symbol \o <<" ", "->", " ", "'">> \o node.token \o <<"'", "\n">>
        ELSE pad \o node.symbol \o <<"\n">> \o pretty_children(node.children, indent + 1)

pretty_children(children, indent) ==
    IF children = <<>> THEN <<>>
    ELSE pretty(Head(children), indent) \o pretty_children(Tail(children), indent)

(***************************************************************************)
(* SentenceGenerator: the pure parts                                       *)
(***************************************************************************)
functional_words ==
    (slot_P :> << <<"w","i","t","h">>, <<"w","i","t","h","o","u","t">>,
                  <<"n","e","a","r">>, <<"a","g","a","i","n","s","t">> >>)
    @@ (slot_AUX :> << <<"d","o","e","s">>, <<"d","i","d">>, <<"w","i","l","l">> >>)
    @@ (slot_WH :> << <<"w","h","y">>, <<"h","o","w">>, <<"w","h","a","t">>,
                      <<"w","h","o">> >>)

\* x or [default]
or_default(xs, default) == IF xs = <<>> THEN <<default>> ELSE xs

\* _choose_for_pos with the NOUN default in every fallback
choose_for_pos_list_cat(slot, entries) ==
    IF slot \in DOMAIN functional_words THEN functional_words[slot]
    ELSE IF slot = slot_DET THEN << <<"t","h","e">>, <<"a">>, <<"a","n">> >>
    ELSE IF slot = slot_NOUN THEN or_default(words_for_pos(entries, NOUN), <<"c","a","t">>)
    ELSE IF slot = slot_VERB THEN or_default(words_for_pos(entries, VERB), <<"c","a","t">>)
    ELSE IF slot = slot_ADJ THEN or_default(words_for_pos(entries, ADJ), <<"c","a","t">>)
    ELSE <<>>

\* _choose_for_pos: the list handed to random.choice; <<>> when the method
\* falls through to `return ""` without drawing
choose_for_pos_list(slot, entries) ==
    IF slot \in DOMAIN functional_words THEN functional_words[slot]
    ELSE IF slot = slot_DET THEN << <<"t","h","e">>, <<"a">>, <<"a","n">> >>
    ELSE IF slot = slot_NOUN THEN or_default(words_for_pos(entries, NOUN), <<"c","a","t">>)
    ELSE IF slot = slot_VERB THEN or_default(words_for_pos(entries, VERB), <<"s","e","e">>)
    ELSE IF slot = slot_ADJ
         THEN or_default(words_for_pos(entries, ADJ), <<"h","a","p","p","y">>)
    ELSE <<>>

\* _choose_for_pos with the index random.choice drew
choose_for_pos(slot, entries, idx) ==
    LET xs == choose_for_pos_list(slot, entries)
    IN  IF xs = <<>> THEN <<>> ELSE xs[idx + 1]

\* _postprocess testing the next token's first character as it is written
postprocess_cased(toks) ==
    [i \in 1..Len(toks) |->
        LET tok == toks[i]
        IN  IF lower(tok) = <<"a">> /\ i + 1 <= Len(toks)
            THEN LET nxt == toks[i + 1]
                 IN  IF nxt # <<>> /\ nxt[1] \in {"a", "e", "i", "o", "u"}
                     THEN <<"a","n">>
                     ELSE tok
            ELSE tok]

\* _postprocess
postprocess(toks) ==
    [i \in 1..Len(toks) |->
        LET tok == toks[i]
        IN  IF lower(tok) = <<"a">> /\ i + 1 <= Len(toks)
            THEN LET nxt == lower(toks[i + 1])
                 IN  IF nxt # <<>> /\ nxt[1] \in {"a", "e", "i", "o", "u"}
                     THEN <<"a","n">>
                     ELSE tok
            ELSE tok]

\* _linearize; ok = FALSE is the IndexError of s[0] on an empty string
linearize(toks) ==
    IF toks = <<>> THEN [ok |-> TRUE, text |-> <<>>]
    ELSE LET s1 == join(<<" ">>, toks)
             s2 == replace(replace(s1, <<" ","?">>, <<"?">>), <<" ",",">>, <<",">>)
         IN  IF s2 = <<>> THEN [ok |-> FALSE, text |-> <<>>]
             ELSE LET s3 == <<upper_char(s2[1])>> \o Tail(s2)
                  IN  [ok |-> TRUE,
                       text |-> IF endswith(s3, {<<".">>, <<"?">>, <<"!">>})
                                THEN s3 ELSE s3 \o <<".">>]

\* generate(): field = EmotionField(0.0), then for the k-th token
\* w = from_word(t.lower(), lex) and field = field.combine(w).
\* The list of every EmotionField constructed, in order; the last is returned.
generate_fields(toks, entries) ==
    LET n == Len(toks)
        w == [k \in 1..n |-> from_word(lower(toks[k]), entries)]
        field[k \in 0..n] == IF k = 0 THEN 0 ELSE combine(field[k - 1], w[k])
    IN  [j \in 1..(2 * n + 1) |->
            IF j = 1 THEN 0
            ELSE IF j % 2 = 0 THEN w[j \div 2]
            ELSE field[(j - 1) \div 2]]

(***************************************************************************)
(* The global random stream                                                *)
(***************************************************************************)
\* seed=None: random is left as the interpreter seeded it from the OS
NoSeed == -1

\* random.choice(rule.rhs) can return any alternative
Alternatives(n) == 0..(n - 1)

\* the words of random.choice(xs), len(xs) = n, that are explored
Picks(n) == {i \in 0..(n - 1) : i >= n - MaxPick}

Seeded == rng.seed # NoSeed

\* after random.seed(s) the stream is a function of s and of the number of
\* draws made since; an OS-seeded stream can produce any index
CanDraw(idx) ==
    IF Seeded /\ <<rng.seed, rng.pos>> \in DOMAIN stream
    THEN idx = stream[<<rng.seed, rng.pos>>]
    ELSE TRUE

Drawn(idx) ==
    /\ rng' = IF Seeded THEN [rng EXCEPT !.pos = @ + 1] ELSE rng
    /\ stream' = IF Seeded THEN (<<rng.seed, rng.pos>> :> idx) @@ stream ELSE stream

(***************************************************************************)
(* SentenceGenerator.generate and _expand, one symbol of a loop per action *)
(***************************************************************************)
NoError == "none"

NoResult == [ok |-> FALSE, text |-> <<>>, tree |-> NoNode, valence |-> 0]

\* an active call: the symbol being expanded, the chosen alternative, the
\* position of the for loop in it, and the locals children and tokens.
\* generate() itself is the outermost one: it expands the one symbol g.start.
Frame(symbol, choice) ==
    [symbol |-> symbol, choice |-> choice, i |-> 1, children |-> <<>>, tokens |-> <<>>]

top == stack[Len(stack)]

Expanding == pc = "expanding" /\ top.i <= Len(top.choice)

sym == top.choice[top.i]

\* the running frame with one more child and its tokens, its loop advanced
Advance(frame, node, toks) ==
    [frame EXCEPT !.children = Append(@, node), !.tokens = @ \o toks, !.i = @ + 1]

ReplaceTop(frame) == [stack EXCEPT ![Len(stack)] = frame]

\* return DerivationNode(symbol, children), tokens: every innermost call whose
\* loop is over returns to its caller, which appends the node, extends its
\* tokens and moves on; its own loop may be over by that
RECURSIVE Return(_)
Return(frames) ==
    LET n == Len(frames)
    IN  IF n > 1 /\ frames[n].i > Len(frames[n].choice)
        THEN LET node == DerivationNode(frames[n].symbol, frames[n].children, FALSE, <<>>)
             IN  Return(Append(SubSeq(frames, 1, n - 2),
                               Advance(frames[n - 1], node, frames[n].tokens)))
        ELSE frames

\* generate() is entered by instance i
Generate(i) ==
    /\ gens[i].constructed
    /\ pc \in {"idle", "returned", "raised"}
    /\ pc' = "expanding"
    /\ caller' = i
    /\ stack' = <<Frame(<<>>, <<Str(start)>>)>>
    /\ err' = NoError
    /\ tree' = NoNode
    /\ tokens' = <<>>
    /\ fields' = <<>>
    /\ result' = NoResult
    /\ UNCHANGED <<lex, g, rng, stream, gens, out, last, recent, ptoks, pout>>

\* _expand(sym) with g.has(sym): choice = random.choice(rule.rhs)
ExpandNonterminal ==
    /\ Expanding
    /\ sym.kind = "str"
    /\ has(g, sym.name)
    /\ Len(stack) < RecursionLimit
    /\ \E idx \in Alternatives(Len(g[sym.name])) :
          /\ CanDraw(idx)
          /\ Drawn(idx)
          /\ stack' = Return(Append(stack, Frame(sym.name, g[sym.name][idx + 1])))
    /\ UNCHANGED <<lex, g, pc, caller, err, tree, tokens, fields, result,
                   gens, out, last, recent, ptoks, pout>>

\* the call of _expand that exceeds the interpreter's recursion limit
ExpandOverflow ==
    /\ Expanding
    /\ sym.kind = "str"
    /\ has(g, sym.name)
    /\ Len(stack) >= RecursionLimit
    /\ pc' = "raised"
    /\ err' = "RecursionError"
    /\ UNCHANGED <<lex, g, rng, stream, caller, stack, tree, tokens, fields, result,
                   gens, out, last, recent, ptoks, pout>>

\* _expand(sym) with not g.has(sym): a terminal literal
ExpandLiteral ==
    /\ Expanding
    /\ sym.kind = "str"
    /\ ~has(g, sym.name)
    /\ stack' = Return(ReplaceTop(Advance(top,
                    DerivationNode(sym.name, <<>>, TRUE, sym.name), <<sym.name>>)))
    /\ UNCHANGED <<lex, g, rng, stream, pc, caller, err, tree, tokens, fields, result,
                   gens, out, last, recent, ptoks, pout>>

\* isinstance(sym, tuple): word = self._choose_for_pos(sym[0])
ExpandSlot ==
    /\ Expanding
    /\ sym.kind = "tuple"
    /\ LET xs == choose_for_pos_list(sym.name, lex)
       IN  \E idx \in (IF xs = <<>> THEN {0} ELSE Picks(Len(xs))) :
              LET word == choose_for_pos(sym.name, lex, idx)
              IN  /\ xs # <<>> => CanDraw(idx)
                  /\ IF xs = <<>> THEN UNCHANGED <<rng, stream>> ELSE Drawn(idx)
                  /\ stack' = Return(ReplaceTop(Advance(top,
                                  DerivationNode(sym.name, <<>>, TRUE, word), <<word>>)))
    /\ UNCHANGED <<lex, g, pc, caller, err, tree, tokens, fields, result,
                   gens, out, last, recent, ptoks, pout>>

\* the else branch skipping the symbol instead of raising
ExpandBadSymbol_skip ==
    /\ Expanding
    /\ sym.kind \notin {"str", "tuple"}
    /\ stack' = Return(ReplaceTop([top EXCEPT !.i = @ + 1]))
    /\ UNCHANGED <<lex, g, rng, stream, pc, caller, err, tree, tokens, fields, result,
                   gens, out, last, recent, ptoks, pout>>

\* else: raise ValueError("Unknown symbol type")
ExpandBadSymbol ==
    /\ Expanding
    /\ sym.kind \notin {"str", "tuple"}
    /\ pc' = "raised"
    /\ err' = "ValueError"
    /\ UNCHANGED <<lex, g, rng, stream, caller, stack, tree, tokens, fields, result,
                   gens, out, last, recent, ptoks, pout>>

\* _expand(self.g.start) has returned: the rest of generate()
GenerateReturn ==
    /\ pc = "expanding"
    /\ Len(stack) = 1
    /\ top.i > Len(top.choice)
    /\ \E toks \in {postprocess(top.tokens)} :
       \E fs \in {generate_fields(toks, lex)} :
       \E sent \in {linearize(toks)} :
           /\ tree' = top.children[1]
           /\ tokens' = toks
           /\ fields' = fs
           /\ stack' = <<>>
           /\ IF sent.ok
              THEN /\ pc' = "returned"
                   /\ err' = NoError
                   /\ result' = [ok |-> TRUE, text |-> sent.text,
                                 tree |-> top.children[1], valence |-> fs[Len(fs)]]
              ELSE /\ pc' = "raised"
                   /\ err' = "IndexError"
                   /\ result' = NoResult
    /\ UNCHANGED <<lex, g, rng, stream, caller, gens, out, last, recent, ptoks, pout>>

(***************************************************************************)
(* Spec: one unseeded SentenceGenerator over a fresh Grammar and a         *)
(* Lexicon, fresh or extended by add before use                            *)
(***************************************************************************)
NoCall == [op |-> "none", arg |-> <<>>, ret |-> <<>>]

Idle ==
    /\ rng = [seed |-> NoSeed, pos |-> 0]
    /\ stream = [x \in {} |-> 0]
    /\ pc = "idle"
    /\ caller = 1
    /\ stack = <<>>
    /\ err = NoError
    /\ tree = NoNode
    /\ tokens = <<>>
    /\ fields = <<>>
    /\ result = NoResult
    /\ out = [i \in {1, 2} |-> <<>>]
    /\ last = NoCall
    /\ recent = <<>>
    /\ ptoks = <<>>
    /\ pout = <<>>

Owl == <<"O","w","l">>

\* lex.add("Owl", "noun", 5.0); lex.add("A", "det", -0.3)
Extended == add(add(Lexicon, Owl, <<"n","o","u","n">>, 5 * One), <<"A">>, <<"d","e","t">>, -30)

Init ==
    /\ Idle
    /\ lex \in {Lexicon, Extended}
    /\ g = Grammar
    /\ gens = [i \in {1, 2} |-> [constructed |-> i = 1, seed |-> NoSeed]]

\* The seed rules hold no literal and no symbol of another type: "?" has a rule.
Next ==
    \/ Generate(1)
    \/ ExpandNonterminal
    \/ ExpandOverflow
    \/ ExpandSlot
    \/ GenerateReturn

Spec == Init /\ [][Next]_vars

(***************************************************************************)
(* SpecG: the generator over a Grammar whose rule for S was replaced by    *)
(* add_rule before use                                                     *)
(***************************************************************************)
slot_FOO == <<"<","F","O","O",">">>

\* the rhs arguments of add_rule("S", rhs) that are tried
RuleInputs ==
    { << <<Slot(slot_FOO)>> >>,
      << <<Slot(slot_FOO), Str(N)>> >>,
      << <<Str(NP), Slot(slot_FOO), Str(VP)>> >>,
      << <<Str(N), Other>>, <<Other>> >>,
      << <<Str(<<"a">>), Str(<<"o","w","l">>)>>, <<Str(<<"A">>), Str(ADJ), Str(N)>> >>,
      << <<Str(V), Str(QMARK)>> >> }

InitG ==
    /\ Idle
    /\ lex = Lexicon
    /\ g \in {add_rule(Grammar, S, rhs) : rhs \in RuleInputs}
    /\ gens = [i \in {1, 2} |-> [constructed |-> i = 1, seed |-> NoSeed]]

NextG ==
    \/ Generate(1)
    \/ ExpandNonterminal
    \/ ExpandOverflow
    \/ ExpandLiteral
    \/ ExpandSlot
    \/ ExpandBadSymbol
    \/ GenerateReturn

SpecG == InitG /\ [][NextG]_vars

(***************************************************************************)
(* SpecDet: two SentenceGenerator instances, each constructed with a seed, *)
(* over the same Lexicon and the same Grammar, their constructions and     *)
(* generate() calls in any order.  The Grammar is the seed one after       *)
(* add_rule("S", [["IMP"]]): imperatives only, which keeps the sentences   *)
(* of two calls per instance few.                                          *)
(***************************************************************************)
\* the seeds tried are 0 .. NumSeeds - 1
NumSeeds == 2

Seeds == 0..(NumSeeds - 1)

\* SentenceGenerator.__init__ with seed is not None: random.seed(seed)
Construct(i, seed) ==
    /\ pc = "idle"
    /\ ~gens[i].constructed
    /\ gens' = [gens EXCEPT ![i] = [constructed |-> TRUE, seed |-> seed]]
    /\ rng' = [seed |-> seed, pos |-> 0]
    /\ UNCHANGED <<lex, g, stream, pc, caller, stack, err, tree, tokens, fields,
                   result, out, last, recent, ptoks, pout>>

\* the client calls instance i's generate() ...
Call(i) ==
    /\ pc = "idle"
    /\ Len(out[i]) < MaxCalls
    /\ Generate(i)

\* ... and keeps (sent, tree.pretty(), field.valence), or the exception
Collect ==
    /\ pc \in {"returned", "raised"}
    /\ pc' = "idle"
    /\ out' = [out EXCEPT ![caller] =
                  Append(@, [text |-> result.text,
                             pretty |-> IF result.ok THEN pretty(result.tree, 0) ELSE <<>>,
                             valence |-> result.valence,
                             err |-> err])]
    /\ UNCHANGED <<lex, g, rng, stream, caller, stack, err, tree, tokens, fields,
                   result, gens, last, recent, ptoks, pout>>

InitDet ==
    /\ Idle
    /\ lex = Lexicon
    /\ g = add_rule(Grammar, S, << <<Str(IMP)>> >>)
    /\ gens = [i \in {1, 2} |-> [constructed |-> FALSE, seed |-> NoSeed]]

NextDet ==
    \/ \E i \in {1, 2} : \E seed \in Seeds : Construct(i, seed)
    \/ \E i \in {1, 2} : Call(i)
    \/ ExpandNonterminal
    \/ ExpandSlot
    \/ GenerateReturn
    \/ Collect

SpecDet == InitDet /\ [][NextDet]_vars

(***************************************************************************)
(* SpecLex: a client of one Lexicon and one SentenceGenerator calling      *)
(* Lexicon.add and _choose_for_pos directly, in any order                  *)
(***************************************************************************)
scientist == <<"s","c","i","e","n","t","i","s","t">>

\* the word, pos and polarity arguments of add that are tried
AddWords ==
    { <<"h","a","p","p","y">>, <<"s","a","d">>, <<"B","r","a","v","e">>,
      <<"a","n","g","r","y">>, scientist, <<"S","c","i","e","n","t","i","s","t">> }

AddPos == { <<"n","o","u","n">>, <<"A","d","j">> }

AddPols == { 30 }

\* the slots _choose_for_pos is called with
SlotInputs == {slot_NOUN, slot_VERB, slot_ADJ, slot_DET, slot_WH, slot_FOO}

NeverAdded == [added |-> FALSE, pos |-> <<>>]

\* lex.add(word, pos, polarity); `recent` keeps, for every spelling of the
\* word, the pos this call was given
AddCall(word, pos, polarity) ==
    /\ lex' = add(lex, word, pos, polarity)
    /\ recent' = [w \in AddWords |->
                     IF lower(w) = lower(word) THEN [added |-> TRUE, pos |-> pos]
                     ELSE recent[w]]
    /\ last' = [op |-> "add", arg |-> word, ret |-> <<>>]
    /\ UNCHANGED <<g, rng, stream, pc, caller, stack, err, tree, tokens, fields,
                   result, gens, out, ptoks, pout>>

\* gen._choose_for_pos(slot) on the unseeded generator
ChooseCall(slot) ==
    /\ LET xs == choose_for_pos_list(slot, lex)
       IN  \E idx \in (IF xs = <<>> THEN {0} ELSE Picks(Len(xs))) :
              last' = [op |-> "choose", arg |-> slot,
                       ret |-> choose_for_pos(slot, lex, idx)]
    /\ UNCHANGED <<lex, g, rng, stream, pc, caller, stack, err, tree, tokens, fields,
                   result, gens, out, recent, ptoks, pout>>

InitLex ==
    /\ rng = [seed |-> NoSeed, pos |-> 0]
    /\ stream = [x \in {} |-> 0]
    /\ pc = "idle"
    /\ caller = 1
    /\ stack = <<>>
    /\ err = NoError
    /\ tree = NoNode
    /\ tokens = <<>>
    /\ fields = <<>>
    /\ result = NoResult
    /\ out = [i \in {1, 2} |-> <<>>]
    /\ last = NoCall
    /\ ptoks = <<>>
    /\ pout = <<>>
    /\ lex = Lexicon
    /\ g = Grammar
    /\ gens = [i \in {1, 2} |-> [constructed |-> i = 1, seed |-> NoSeed]]
    /\ recent = [w \in AddWords |-> NeverAdded]

NextLex ==
    \/ \E word \in AddWords : \E pos \in AddPos : \E polarity \in AddPols :
          AddCall(word, pos, polarity)
    \/ \E slot \in SlotInputs : ChooseCall(slot)

SpecLex == InitLex /\ [][NextLex]_vars

(***************************************************************************)
(* SpecPost: _postprocess applied to a token list                          *)
(***************************************************************************)
\* the tokens the lists are made of
PostTokens ==
    { <<"a">>, <<"A">>, <<"a","n">>, <<"o","w","l">>, <<"E","m","u">>,
      <<"c","a","t">>, <<>> }

TokenLists == UNION {[1..n -> PostTokens] : n \in 0..MaxLen}

PostprocessCall ==
    /\ last.op = "none"
    /\ pout' = postprocess(ptoks)
    /\ last' = [op |-> "postprocess", arg |-> <<>>, ret |-> <<>>]
    /\ UNCHANGED <<lex, g, rng, stream, pc, caller, stack, err, tree, tokens, fields,
                   result, gens, out, recent, ptoks>>

InitPost ==
    /\ rng = [seed |-> NoSeed, pos |-> 0]
    /\ stream = [x \in {} |-> 0]
    /\ pc = "idle"
    /\ caller = 1
    /\ stack = <<>>
    /\ err = NoError
    /\ tree = NoNode
    /\ tokens = <<>>
    /\ fields = <<>>
    /\ result = NoResult
    /\ out = [i \in {1, 2} |-> <<>>]
    /\ last = NoCall
    /\ recent = <<>>
    /\ pout = <<>>
    /\ lex = Lexicon
    /\ g = Grammar
    /\ gens = [i \in {1, 2} |-> [constructed |-> i = 1, seed |-> NoSeed]]
    /\ ptoks \in TokenLists

NextPost == PostprocessCall

SpecPost == InitPost /\ [][NextPost]_vars

(***************************************************************************)
(* The claims                                                              *)
(***************************************************************************)
Range(xs) == {xs[i] : i \in 1..Len(xs)}

Count(xs, x) == Cardinality({i \in 1..Len(xs) : xs[i] = x})

Done == pc \in {"returned", "raised"}

\* C1: generate() on the seed rule set terminates for every sequence of random
\* choices: no derivation from S recurses until the interpreter's recursion
\* limit stops it.
C1_SeedGrammarTerminates == ~(pc = "raised" /\ err = "RecursionError")

\* C2: every generate() call on the seed Grammar returns a text that is
\* non-empty, starts with an uppercase letter and ends with '.', '?' or '!'.
C2_SentenceWellFormed ==
    Done =>
        /\ pc = "returned"
        /\ result.ok
        /\ result.text # <<>>
        /\ isupper(result.text[1])
        /\ result.text[Len(result.text)] \in {".", "?", "!"}

\* C3: two instances constructed with the same seed over equal Grammar and
\* Lexicon contents return the same (text, tree.pretty(), valence) from their
\* k-th generate() call, for every k, however the constructions and the calls
\* are ordered.
C3_SameSeedSameOutput ==
    (gens[1].constructed /\ gens[2].constructed /\ gens[1].seed = gens[2].seed)
        => \A k \in 1..Len(out[1]) : k <= Len(out[2]) => out[1][k] = out[2][k]

VowelInitial(tok) ==
    tok # <<>> /\ tok[1] \in {"a", "e", "i", "o", "u", "A", "E", "I", "O", "U"}

\* C4 as stated: the output has the length of the input, position i holds "an"
\* when token i is "a" and token i+1 exists and begins with a vowel letter, and
\* the original token i in every other case.
C4_OnlyLowercaseA ==
    last.op = "postprocess" =>
        /\ Len(pout) = Len(ptoks)
        /\ \A i \in 1..Len(ptoks) :
              pout[i] = IF ptoks[i] = <<"a">> /\ i < Len(ptoks) /\ VowelInitial(ptoks[i + 1])
                        THEN <<"a","n">>
                        ELSE ptoks[i]

\* C4 amended: the output has the length of the input, position i holds "an"
\* when token i is "a" or "A" and token i+1 exists and begins with a vowel
\* letter (either case), and the original token i in every other case; so no
\* "a" or "A" of the output is immediately followed by a vowel-initial token.
C4_ArticleCorrection ==
    last.op = "postprocess" =>
        /\ Len(pout) = Len(ptoks)
        /\ \A i \in 1..Len(ptoks) :
              pout[i] = IF ptoks[i] \in {<<"a">>, <<"A">>} /\ i < Len(ptoks)
                           /\ VowelInitial(ptoks[i + 1])
                        THEN <<"a","n">>
                        ELSE ptoks[i]
        /\ \A i \in 1..(Len(pout) - 1) :
              pout[i] \in {<<"a">>, <<"A">>} => ~VowelInitial(pout[i + 1])

C4_Rewritten ==
    /\ last.op = "postprocess"
    /\ \E i \in 1..(Len(ptoks) - 1) :
          ptoks[i] = <<"A">> /\ ptoks[i + 1] = <<"E","m","u">> /\ pout[i] = <<"a","n">>
    /\ ptoks[Len(ptoks)] = <<"a">>
    /\ pout[Len(pout)] = <<"a">>

Tags == {DET, NOUN, VERB, ADJ}

SeedWords == {Lexicon[i].word : i \in 1..Len(Lexicon)}

\* C5: after any sequence of add calls no seed key is gone; every word that
\* was added, in any letter case, is listed under its lowercased form exactly
\* once by words_for_pos of the pos of its most recent add and by no other
\* part of speech; a word neither added nor in the seed vocabulary is listed
\* nowhere.
C5_LexiconAdd ==
    /\ SeedWords \subseteq {lex[i].word : i \in 1..Len(lex)}
    /\ \A w \in DOMAIN recent :
          IF recent[w].added
          THEN /\ Count(words_for_pos(lex, recent[w].pos), lower(w)) = 1
               /\ \A p \in Tags :
                     p # upper(recent[w].pos) => lower(w) \notin Range(words_for_pos(lex, p))
          ELSE lower(w) \notin SeedWords =>
                  \A p \in Tags \cup {upper(q) : q \in AddPos} :
                     lower(w) \notin Range(words_for_pos(lex, p))

C5_Readded ==
    /\ last.op = "add"
    /\ last.arg = <<"S","c","i","e","n","t","i","s","t">>
    /\ recent[scientist] = [added |-> TRUE, pos |-> <<"A","d","j">>]
    /\ scientist \in Range(words_for_pos(lex, ADJ))
    /\ recent[<<"s","a","d">>].added
    /\ <<"s","a","d">> \in Range(words_for_pos(lex, NOUN))

\* the polarity the lexicon holds for a token, 0 for a token it does not hold
PolarityOf(tok) ==
    LET hits == {i \in 1..Len(lex) : lex[i].word = lower(tok)}
    IN  IF hits = {} THEN 0 ELSE lex[CHOOSE i \in hits : TRUE].polarity

\* tanh(...tanh(tanh(0 + p1) + p2)... + pk)
LeftFold[k \in 0..Len(tokens)] ==
    IF k = 0 THEN 0 ELSE tanh(LeftFold[k - 1] + PolarityOf(tokens[k]))

\* C6: the valence generate() returns is the left fold of tanh(acc + p) over
\* the post-processed tokens in token order, from 0, one combine per token.
C6_LeftFoldValence ==
    pc = "returned" =>
        /\ result.valence = LeftFold[Len(tokens)]
        /\ Len(fields) = 2 * Len(tokens) + 1

C6_Folded ==
    /\ pc = "returned"
    /\ Len(tokens) >= 3
    /\ \E i, j \in 1..Len(tokens) :
          i < j /\ PolarityOf(tokens[i]) > 0 /\ PolarityOf(tokens[j]) < 0
    /\ \E i \in 1..Len(tokens) : \A e \in Range(lex) : e.word # tokens[i]
    /\ result.valence # 0

\* C7: every EmotionField constructed has -1.0 <= valence <= 1.0
C7_FieldsBounded == \A j \in 1..Len(fields) : 0 - One <= fields[j] /\ fields[j] <= One

BadSymbolNext == Expanding /\ sym.kind \notin {"str", "tuple"}

\* C8: a symbol that is neither a string nor a slot tuple aborts generate()
\* with ValueError: nothing is appended for it, and the call that met it
\* returns no result.
C8_BadSymbolAborts ==
    [][ /\ BadSymbolNext =>
            /\ pc' = "raised"
            /\ err' = "ValueError"
            /\ stack' = stack
            /\ ~result'.ok
        /\ err = "ValueError" => (~result.ok /\ pc' # "returned") ]_vars

C8_Aborted ==
    /\ pc = "raised"
    /\ err = "ValueError"
    /\ top.i = 2
    /\ Len(top.tokens) = 1
    /\ ~result.ok

SlotTag(slot) ==
    IF slot = slot_NOUN THEN NOUN ELSE IF slot = slot_VERB THEN VERB ELSE ADJ

SlotDefault(slot) ==
    IF slot = slot_NOUN THEN <<"c","a","t">>
    ELSE IF slot = slot_VERB THEN <<"s","e","e">>
    ELSE <<"h","a","p","p","y">>

\* C9: _choose_for_pos of a NOUN, VERB or ADJ slot returns a member of
\* words_for_pos of the tag when that list is non-empty and the default word
\* of the tag when it is empty.
C9_SlotResolution ==
    (last.op = "choose" /\ last.arg \in {slot_NOUN, slot_VERB, slot_ADJ}) =>
        LET ws == words_for_pos(lex, SlotTag(last.arg))
        IN  IF ws # <<>> THEN last.ret \in Range(ws)
            ELSE last.ret = SlotDefault(last.arg)

C9_EmptyClass ==
    /\ last.op = "choose"
    /\ last.arg = slot_ADJ
    /\ words_for_pos(lex, ADJ) = <<>>
    /\ last.ret = <<"h","a","p","p","y">>

KnownSlots == {slot_P, slot_AUX, slot_WH, slot_DET, slot_NOUN, slot_VERB, slot_ADJ}

\* a leaf the derivation made of a slot with an unknown name
RECURSIVE HasUnknownSlot(_)
HasUnknownSlot(node) ==
    IF node.leaf
    THEN node.token = <<>> /\ node.symbol # <<>> /\ node.symbol \notin KnownSlots
    ELSE \E i \in 1..Len(node.children) : HasUnknownSlot(node.children[i])

\* C10: a finite derivation that holds a slot of unknown name still makes
\* generate() return its triple: the call does not raise.
C10_UnknownSlotReturns ==
    (Done /\ HasUnknownSlot(tree)) => (pc = "returned" /\ result.ok)

====
